---- MODULE Spec2Model ----
(***************************************************************************)
(* Date-filter synchronisation of PdfViewerComponent                       *)
(* (src/src/components/header.jsx): the Date Index (availableDatesRef),    *)
(* the toolbar dropdown, the visibility sweep filterAnnotationsByDate and  *)
(* the annotations.create / annotations.delete listeners, and the runs of  *)
(* the effect that load a viewer instance for each value of props.document.*)
(*                                                                         *)
(* Every async function is cut at its awaits: one action is the            *)
(* synchronous run of a handler between two awaits.  instance.update is    *)
(* cut in three: the call (the handler suspends), the viewer applying the  *)
(* write to its annotation store, and the handler's continuation.          *)
(* Strings are sequences of UTF-16 code units; an optional value           *)
(* (undefined / null) is a set with at most one element.                   *)
(***************************************************************************)
EXTENDS Integers, Sequences, FiniteSets, TLC

\* ------------------------------------------------------------------ bounds
NumPages == 2          \* instance.totalPageCount of the loaded document
MaxAnnotations == 2    \* annotations that ever exist (pre-existing + created)
NumDates == 2          \* distinct date strings a user types or a document holds
MaxBatch == 2          \* annotations delivered by one annotations.create event
MaxSweeps == 2         \* change-listener runs in flight together
MaxCreates == 1        \* annotations.create listener runs in flight together
MaxDeletes == 2        \* annotations.delete listener runs in flight together
MaxLoads == 1          \* changes of the document prop after the first load

\* ----------------------------------------------------------------- strings
\* "all", the value of the first option
ALL == <<97, 108, 108>>

RECURSIVE ToStr(_)
\* decimal numeral of n as code units ("9", "10", "11", ...)
ToStr(n) == IF n < 10 THEN <<48 + n>> ELSE ToStr(n \div 10) \o <<48 + (n % 10)>>

\* the date strings of the model: "9", "10", ... (code-unit order differs
\* from numeric order, as it does for unpadded dates)
Dates == {ToStr(n) : n \in 9..(8 + NumDates)}

\* new Date().toISOString(): "<date>T<time>"
NowISO == ToStr(10) \o <<84>> \o ToStr(0)

\* s.split("T")[0]: the prefix of s before the first "T" (code unit 84)
SplitT0(s) ==
    LET cut == {k \in 1..Len(s) : s[k] = 84}
    IN  IF cut = {} THEN s
        ELSE SubSeq(s, 1, (CHOOSE k \in cut : \A j \in cut : k <= j) - 1)

Today == SplitT0(NowISO)

\* the numerals compared by the number they denote, as sort((a, b) => a - b) would
NumLess(a, b) ==
    \/ Len(a) < Len(b)
    \/ /\ Len(a) = Len(b)
       /\ \E k \in 1..Len(a) : a[k] < b[k] /\ \A j \in 1..(k - 1) : a[j] = b[j]

\* a < b in code-unit order, the order of Array.prototype.sort() with no comparator
StrLess(a, b) ==
    \E k \in 1..(Len(a) + 1) :
        /\ \A j \in 1..(k - 1) : j <= Len(b) /\ a[j] = b[j]
        /\ \/ k = Len(a) + 1 /\ k <= Len(b)
           \/ k <= Len(a) /\ k <= Len(b) /\ a[k] < b[k]

RECURSIVE SortedDates(_)
\* Array.from(dates).sort()
SortedDates(dates) ==
    IF dates = {} THEN <<>>
    ELSE LET m == CHOOSE x \in dates : \A y \in dates \ {x} : StrLess(x, y)
         IN  <<m>> \o SortedDates(dates \ {m})

\* the elements of a sequence
Range(s) == {s[k] : k \in 1..Len(s)}

\* ------------------------------------------------------------- annotations
\* annotation.customData: absent, or { createdDate, timestamp }
CustomData(d) == {[createdDate |-> d, timestamp |-> NowISO]}

\* annotation.customData?.createdDate: undefined ({}) or the string
CreatedDateOf(a) == {cd.createdDate : cd \in a.customData}

\* an annotation as the viewer creates it: visible, no customData
NewAnnotation(id, p) ==
    [id |-> id, pageIndex |-> p, hidden |-> FALSE, customData |-> {}]

\* the annotations a document may hold when it is opened
StoredAnnotation(id) ==
    [id : {id}, pageIndex : 0..(NumPages - 1), hidden : BOOLEAN,
     customData : {{}} \cup {CustomData(d) : d \in Dates}]

VARIABLES
    annotations,        \* the viewer's annotation store, in creation order
    nextId,             \* next annotation id the viewer hands out
    availableDatesRef,  \* availableDatesRef.current
    toolbar,            \* the toolbar's items with id "date-filter": their select nodes
    load,               \* loadViewer: its position and its collectAvailableDates locals
    sweeps,             \* runs of the change listener / filterAnnotationsByDate
    creates,            \* runs of the annotations.create listener
    deletes,            \* runs of the annotations.delete listener
    harness,            \* the last direct call of a function: its arguments and what it saw
    unloaded,           \* the viewer instance the cleanup unloaded: its listener runs in flight
    effects,            \* the runs of the effect followed from their start: their loadViewer
    instanceRef,        \* instanceRef.current: the number of the effect run that set it, 0 for null
    mounted             \* the effect runs whose viewer instance is mounted in the container

vars == <<annotations, nextId, availableDatesRef, toolbar, load, sweeps, creates, deletes,
          harness, unloaded, effects, instanceRef, mounted>>

\* instanceObj.getAnnotations(pageIndex), resolved against the store st
GetAnnotations(st, p) == SelectSeq(st, LAMBDA a : a.pageIndex = p)

\* ids present in the store
Ids(st) == {a.id : a \in Range(st)}

\* instance.update(a) applied by the viewer: the stored record with a's id becomes a
ApplyUpdate(st, a) == [k \in 1..Len(st) |-> IF st[k].id = a.id THEN a ELSE st[k]]

\* s with its k-th element removed
RemoveAt(s, k) == SubSeq(s, 1, k - 1) \o SubSeq(s, k + 1, Len(s))

\* the least element of a non-empty set of integers
Min(S) == CHOOSE k \in S : \A j \in S : k <= j

\* JavaScript truthiness of an optional string: undefined, null and "" are falsy
Truthy(v) == v # {} /\ <<>> \notin v

\* -------------------------------------------------- collectAvailableDates
\* the forEach over one page had dates been declared inside the page loop
PageDatesOfLastPage(dates, pageAnnotations) ==
    UNION {IF Truthy(CreatedDateOf(a)) THEN CreatedDateOf(a) ELSE {}
           : a \in Range(pageAnnotations)}

\* the forEach over one page: dates with every truthy createdDate of the page added
PageDates(dates, pageAnnotations) ==
    dates \cup UNION {IF Truthy(CreatedDateOf(a)) THEN CreatedDateOf(a) ELSE {}
                      : a \in Range(pageAnnotations)}

\* collectAvailableDates just called: dates = new Set(), awaiting getAnnotations(0)
NewCollect == [pc |-> "getAnnotations", pageIndex |-> 0, dates |-> {}]

\* getAnnotations(pageIndex) resolves for the collector c: the page is added and the
\* loop goes on to the next page, or ends (availableDatesRef.current = dates; return)
CollectStep(c, st) ==
    LET d == PageDates(c.dates, GetAnnotations(st, c.pageIndex))
    IN  IF c.pageIndex + 1 < NumPages
        THEN [pc |-> "getAnnotations", pageIndex |-> c.pageIndex + 1, dates |-> d]
        ELSE [pc |-> "collected", pageIndex |-> c.pageIndex + 1, dates |-> d]

\* the rebuild with availableDatesRef.current = dates moved into the page loop
PublishedEachPage(c, ref) == c.dates

\* availableDatesRef.current once the collector has become c: dates is assigned only
\* after the last page
Published(c, ref) == IF c.pc = "collected" THEN c.dates ELSE ref

\* ----------------------------------------------- createDateFilterDropdown
\* the option values of the select: "all", then Array.from(dates).sort()
OptionList(dates) == <<ALL>> \o SortedDates(dates)

\* the select node of the returned toolbar item: a fresh select shows its first
\* option and is in the document only once the viewer has rendered the toolbar
CreateDateFilterDropdown(dates) ==
    [options |-> OptionList(dates), value |-> Head(OptionList(dates)), attached |-> FALSE]

\* ----------------------------------------------------- updateDateDropdown
\* document.getElementById("date-filter-dropdown"): the first such node in the document
FoundDropdown(tb) == {k \in 1..Len(tb) : tb[k].attached /\ \A j \in 1..(k - 1) : ~tb[j].attached}

\* the select after its options are rebuilt, the selection never restored
RefreshedSelectReset(node, dates) ==
    [node EXCEPT !.options = <<ALL>> \o SortedDates(dates), !.value = ALL]

\* the select after its options are rebuilt: the previous selection is restored when
\* it is "all" or one of dates; otherwise the select is left on its first option
RefreshedSelect(node, dates) ==
    LET currentSelection == node.value
    IN  [node EXCEPT !.options = OptionList(dates),
                     !.value = IF currentSelection \in dates \/ currentSelection = ALL
                               THEN currentSelection
                               ELSE Head(OptionList(dates))]

\* updateDateDropdown with setToolbarItems appending to the items unfiltered
UpdateDateDropdownUnfiltered(tb, dates) ==
    IF FoundDropdown(tb) = {}
    THEN Append(tb, CreateDateFilterDropdown(dates))
    ELSE LET k == Min(FoundDropdown(tb))
         IN  [tb EXCEPT ![k] = RefreshedSelect(tb[k], dates)]

\* the toolbar's date-filter items after updateDateDropdown(dates)
UpdateDateDropdown(tb, dates) ==
    IF FoundDropdown(tb) = {}
    THEN \* setToolbarItems: every item with id "date-filter" dropped, a new one appended
         <<CreateDateFilterDropdown(dates)>>
    ELSE LET k == Min(FoundDropdown(tb))
         IN  [tb EXCEPT ![k] = RefreshedSelect(tb[k], dates)]

\* ------------------------------------------------ filterAnnotationsByDate
\* the loop body without its checks of the current hidden value: every annotation
\* is written
SweepUpdateAlways(a, dateFilter) ==
    {[a EXCEPT !.hidden = ~(dateFilter = ALL \/ CreatedDateOf(a) = {dateFilter})]}

\* the loop body skipping annotations that have no createdDate
SweepUpdateTaggedOnly(a, dateFilter) ==
    IF dateFilter = ALL
    THEN IF a.hidden THEN {[a EXCEPT !.hidden = FALSE]} ELSE {}
    ELSE IF CreatedDateOf(a) = {}
         THEN {}
         ELSE IF CreatedDateOf(a) = {dateFilter}
              THEN IF a.hidden THEN {[a EXCEPT !.hidden = FALSE]} ELSE {}
              ELSE IF ~a.hidden THEN {[a EXCEPT !.hidden = TRUE]} ELSE {}

\* the loop body without its branch for "all": only a concrete date is acted on
SweepUpdateDatesOnly(a, dateFilter) ==
    IF dateFilter = ALL
    THEN {}
    ELSE IF CreatedDateOf(a) = {dateFilter}
         THEN IF a.hidden THEN {[a EXCEPT !.hidden = FALSE]} ELSE {}
         ELSE IF ~a.hidden THEN {[a EXCEPT !.hidden = TRUE]} ELSE {}

\* what the loop body passes to instanceObj.update for annotation a: nothing, or a
\* with hidden set
SweepUpdate(a, dateFilter) ==
    IF dateFilter = ALL
    THEN IF a.hidden THEN {[a EXCEPT !.hidden = FALSE]} ELSE {}
    ELSE IF CreatedDateOf(a) = {dateFilter}
         THEN IF a.hidden THEN {[a EXCEPT !.hidden = FALSE]} ELSE {}
         ELSE IF ~a.hidden THEN {[a EXCEPT !.hidden = TRUE]} ELSE {}

\* filterAnnotationsByDate just called: awaiting getAnnotations(0)
NewSweep(dateFilter) ==
    [dateFilter |-> dateFilter, pageIndex |-> 0, pc |-> "getAnnotations",
     annotations |-> <<>>]

\* the for loop over the pages without its pageIndex++
SweepAdvanceSamePage(sw, rest) ==
    LET need == {k \in 1..Len(rest) : SweepUpdate(rest[k], sw.dateFilter) # {}}
    IN  IF need # {}
        THEN [sw EXCEPT !.pc = "update", !.annotations = SubSeq(rest, Min(need), Len(rest))]
        ELSE IF sw.pageIndex + 1 < NumPages
             THEN [sw EXCEPT !.pc = "getAnnotations", !.annotations = <<>>]
             ELSE [sw EXCEPT !.pc = "done", !.annotations = <<>>]

\* the run sw continues its for-of loop over rest (the annotations of the page not
\* yet visited) until its next await: an update of the first annotation that needs
\* one (kept with those after it), the next page's getAnnotations, or the end
SweepAdvance(sw, rest) ==
    LET need == {k \in 1..Len(rest) : SweepUpdate(rest[k], sw.dateFilter) # {}}
    IN  IF need # {}
        THEN [sw EXCEPT !.pc = "update", !.annotations = SubSeq(rest, Min(need), Len(rest))]
        ELSE IF sw.pageIndex + 1 < NumPages
             THEN [sw EXCEPT !.pc = "getAnnotations", !.pageIndex = @ + 1,
                             !.annotations = <<>>]
             ELSE [sw EXCEPT !.pc = "done", !.annotations = <<>>]

\* a list of runs with run h replaced by r, or dropped when r has ended
Continue(runs, h, r) ==
    IF r.pc = "done" THEN RemoveAt(runs, h) ELSE [runs EXCEPT ![h] = r]

\* ---------------------------------------------------- promptForCustomDate
\* what window.prompt returns: null (cancelled), "" or a typed date
PromptResults == {{}, {<<>>}} \cup {{d} : d \in Dates}

\* customDate || today
PromptForCustomDate(customDate) ==
    IF Truthy(customDate) THEN CHOOSE d \in customDate : TRUE ELSE Today

\* ------------------------------------------------------------------- Init
\* the documents that may be opened: up to MaxAnnotations stored annotations
Documents ==
    UNION {{[k \in 1..n |-> [id |-> k, pageIndex |-> f[k].pageIndex,
                             hidden |-> f[k].hidden, customData |-> f[k].customData]]
            : f \in [1..n -> StoredAnnotation(0)]}
           : n \in 0..MaxAnnotations}

\* no function has been called directly
NoCall == [op |-> "none", dateFilter |-> <<>>, dates |-> {}, found |-> FALSE,
           selection |-> <<>>, result |-> CreateDateFilterDropdown({}),
           before |-> <<>>, repeat |-> FALSE]

\* no document has been opened after the first: nothing was unloaded
NoneUnloaded == [loads |-> 0, store |-> <<>>, creates |-> <<>>, deletes |-> <<>>]

\* NutrientViewer.load has resolved for some document and loadViewer has called
\* collectAvailableDates: no toolbar item, no listener yet, the index is new Set().
\* The first run of the effect has mounted its instance and set instanceRef.current;
\* load follows it from here (effects follows runs from their start, in SpecLoad)
Init ==
    /\ annotations \in Documents
    /\ nextId = Len(annotations) + 1
    /\ availableDatesRef = {}
    /\ toolbar = <<>>
    /\ load = NewCollect
    /\ sweeps = <<>>
    /\ creates = <<>>
    /\ deletes = <<>>
    /\ harness = NoCall
    /\ unloaded = NoneUnloaded
    /\ effects = <<>>
    /\ instanceRef = 1
    /\ mounted = {1}

\* the listeners of loadViewer are registered
Registered == load.pc = "done"

\* ------------------------------------------------------------- loadViewer
\* getAnnotations resolves inside the collectAvailableDates of loadViewer
LoadGetAnnotations ==
    /\ load.pc = "getAnnotations"
    /\ load' = CollectStep(load, annotations)
    /\ availableDatesRef' = Published(load', availableDatesRef)
    /\ UNCHANGED <<annotations, nextId, toolbar, sweeps, creates, deletes, harness, unloaded,
                   effects, instanceRef, mounted>>

\* loadViewer resumes with dates: the dropdown item is appended to the toolbar and
\* the three listeners are registered
LoadResume ==
    /\ load.pc = "collected"
    /\ toolbar' = Append(toolbar, CreateDateFilterDropdown(load.dates))
    /\ load' = [pc |-> "done", pageIndex |-> 0, dates |-> {}]
    /\ UNCHANGED <<annotations, nextId, availableDatesRef, sweeps, creates, deletes,
                   harness, unloaded, effects, instanceRef, mounted>>

\* the viewer renders the toolbar: a custom item's node enters the document
Render(k) ==
    /\ k \in 1..Len(toolbar)
    /\ ~toolbar[k].attached
    /\ toolbar' = [toolbar EXCEPT ![k].attached = TRUE]
    /\ UNCHANGED <<annotations, nextId, availableDatesRef, load, sweeps, creates,
                   deletes, harness, unloaded, effects, instanceRef, mounted>>

\* ------------------------------------- change listener / filterAnnotationsByDate
\* the user picks another option s of the dropdown k: the change listener calls
\* filterAnnotationsByDate(instance, s)
SelectDate(k, s) ==
    /\ k \in 1..Len(toolbar)
    /\ toolbar[k].attached
    /\ s \in Range(toolbar[k].options)
    /\ s # toolbar[k].value
    /\ Len(sweeps) < MaxSweeps
    /\ toolbar' = [toolbar EXCEPT ![k].value = s]
    /\ sweeps' = Append(sweeps, NewSweep(s))
    /\ UNCHANGED <<annotations, nextId, availableDatesRef, load, creates, deletes,
                   harness, unloaded, effects, instanceRef, mounted>>

\* getAnnotations(pageIndex) resolves for run h, which loops over the page
SweepGetAnnotations(h) ==
    /\ h \in 1..Len(sweeps)
    /\ sweeps[h].pc = "getAnnotations"
    /\ sweeps' = Continue(sweeps, h,
                          SweepAdvance(sweeps[h],
                                       GetAnnotations(annotations, sweeps[h].pageIndex)))
    /\ UNCHANGED <<annotations, nextId, availableDatesRef, toolbar, load, creates,
                   deletes, harness, unloaded, effects, instanceRef, mounted>>

\* the viewer carries out the update run h awaits: the stored annotation becomes the
\* run's copy with hidden set; an annotation deleted meanwhile makes update reject,
\* which ends the run (the rejection is not caught)
SweepUpdateApply(h) ==
    /\ h \in 1..Len(sweeps)
    /\ sweeps[h].pc = "update"
    /\ LET a == Head(sweeps[h].annotations)
           w == CHOOSE u \in SweepUpdate(a, sweeps[h].dateFilter) : TRUE
       IN  IF a.id \in Ids(annotations)
           THEN /\ annotations' = ApplyUpdate(annotations, w)
                /\ sweeps' = [sweeps EXCEPT ![h].pc = "updated"]
           ELSE /\ annotations' = annotations
                /\ sweeps' = RemoveAt(sweeps, h)
    /\ UNCHANGED <<nextId, availableDatesRef, toolbar, load, creates, deletes, harness, unloaded,
                   effects, instanceRef, mounted>>

\* run h resumes after its update and goes on with the rest of the page
SweepResume(h) ==
    /\ h \in 1..Len(sweeps)
    /\ sweeps[h].pc = "updated"
    /\ sweeps' = Continue(sweeps, h, SweepAdvance(sweeps[h], Tail(sweeps[h].annotations)))
    /\ UNCHANGED <<annotations, nextId, availableDatesRef, toolbar, load, creates,
                   deletes, harness, unloaded, effects, instanceRef, mounted>>

\* ------------------------------------------------ annotations.create listener
\* the create listener at its await of instance.update for the first of batch, after
\* the prompt returned r
TagNext(batch, r) ==
    [pc |-> "update", annotations |-> batch, customDate |-> PromptForCustomDate(r)]

\* the user creates annotations on the pages ps; once the listeners are registered
\* the viewer delivers annotations.create and the listener prompts for the first one
CreateAnnotations(ps, r) ==
    /\ Len(ps) \in 1..MaxBatch
    /\ nextId + Len(ps) - 1 <= MaxAnnotations
    /\ LET batch == [k \in 1..Len(ps) |-> NewAnnotation(nextId + k - 1, ps[k])]
       IN  /\ annotations' = annotations \o batch
           /\ IF Registered
              THEN /\ Len(creates) < MaxCreates
                   /\ creates' = Append(creates, TagNext(batch, r))
              ELSE /\ r = {}
                   /\ creates' = creates
    /\ nextId' = nextId + Len(ps)
    /\ UNCHANGED <<availableDatesRef, toolbar, load, sweeps, deletes, harness, unloaded,
                   effects, instanceRef, mounted>>

\* the viewer carries out the update the listener run h awaits: the stored annotation
\* becomes the delivered copy with customData set; an annotation deleted meanwhile
\* makes update reject, which ends the run
CreateUpdateApply(h) ==
    /\ h \in 1..Len(creates)
    /\ creates[h].pc = "update"
    /\ LET a == Head(creates[h].annotations)
           updatedAnnotation == [a EXCEPT !.customData = CustomData(creates[h].customDate)]
       IN  IF a.id \in Ids(annotations)
           THEN /\ annotations' = ApplyUpdate(annotations, updatedAnnotation)
                /\ creates' = [creates EXCEPT ![h].pc = "updated"]
           ELSE /\ annotations' = annotations
                /\ creates' = RemoveAt(creates, h)
    /\ UNCHANGED <<nextId, availableDatesRef, toolbar, load, sweeps, deletes, harness, unloaded,
                   effects, instanceRef, mounted>>

\* the listener run h resumes after its update: the index gets customDate, the
\* dropdown is refreshed, and the loop prompts for the next annotation of the batch
CreateResume(h, r) ==
    /\ h \in 1..Len(creates)
    /\ creates[h].pc = "updated"
    /\ LET newDates == availableDatesRef \cup {creates[h].customDate}
           rest == Tail(creates[h].annotations)
       IN  /\ availableDatesRef' = newDates
           /\ toolbar' = UpdateDateDropdown(toolbar, newDates)
           /\ IF rest = <<>>
              THEN r = {} /\ creates' = RemoveAt(creates, h)
              ELSE creates' = [creates EXCEPT ![h] = TagNext(rest, r)]
    /\ UNCHANGED <<annotations, nextId, load, sweeps, deletes, harness, unloaded,
                   effects, instanceRef, mounted>>

\* ------------------------------------------------ annotations.delete listener
\* the user deletes annotation id; once the listeners are registered the viewer
\* delivers annotations.delete and the listener calls collectAvailableDates
DeleteAnnotation(id) ==
    /\ id \in Ids(annotations)
    /\ annotations' = SelectSeq(annotations, LAMBDA a : a.id # id)
    /\ IF Registered
       THEN /\ Len(deletes) < MaxDeletes
            /\ deletes' = Append(deletes, NewCollect)
       ELSE deletes' = deletes
    /\ UNCHANGED <<nextId, availableDatesRef, toolbar, load, sweeps, creates, harness, unloaded,
                   effects, instanceRef, mounted>>

\* getAnnotations resolves inside the collectAvailableDates of listener run h
DeleteGetAnnotations(h) ==
    /\ h \in 1..Len(deletes)
    /\ deletes[h].pc = "getAnnotations"
    /\ deletes' = [deletes EXCEPT ![h] = CollectStep(deletes[h], annotations)]
    /\ availableDatesRef' = Published(deletes'[h], availableDatesRef)
    /\ UNCHANGED <<annotations, nextId, toolbar, load, sweeps, creates, harness, unloaded,
                   effects, instanceRef, mounted>>

\* listener run h resumes with dates and calls updateDateDropdown(dates)
DeleteResume(h) ==
    /\ h \in 1..Len(deletes)
    /\ deletes[h].pc = "collected"
    /\ toolbar' = UpdateDateDropdown(toolbar, deletes[h].dates)
    /\ deletes' = RemoveAt(deletes, h)
    /\ UNCHANGED <<annotations, nextId, availableDatesRef, load, sweeps, creates, harness, unloaded,
                   effects, instanceRef, mounted>>

\* ------------------------------------------------------------------- Spec
\* the pages of a created batch
Batches == UNION {[1..n -> 0..(NumPages - 1)] : n \in 1..MaxBatch}

Next ==
    \/ LoadGetAnnotations
    \/ LoadResume
    \/ \E k \in 1..Len(toolbar) : Render(k)
    \/ \E k \in 1..Len(toolbar) : \E s \in {ALL} \cup Dates : SelectDate(k, s)
    \/ \E h \in 1..MaxSweeps : SweepGetAnnotations(h)
    \/ \E h \in 1..MaxSweeps : SweepUpdateApply(h)
    \/ \E h \in 1..MaxSweeps : SweepResume(h)
    \/ \E ps \in Batches : \E r \in PromptResults : CreateAnnotations(ps, r)
    \/ \E h \in 1..MaxCreates : CreateUpdateApply(h)
    \/ \E h \in 1..MaxCreates : \E r \in PromptResults : CreateResume(h, r)
    \/ \E id \in 1..MaxAnnotations : DeleteAnnotation(id)
    \/ \E h \in 1..MaxDeletes : DeleteGetAnnotations(h)
    \/ \E h \in 1..MaxDeletes : DeleteResume(h)

Spec == Init /\ [][Next]_vars

\* ------------------------------------------------- the functions called directly
\* nothing is in flight: loadViewer has finished and no listener run is suspended
Idle == load.pc = "done" /\ sweeps = <<>> /\ creates = <<>> /\ deletes = <<>>

\* select.value = s is assigned from outside: no change event, so no listener runs
PickOption(k, s) ==
    /\ Idle
    /\ k \in 1..Len(toolbar)
    /\ s \in Range(toolbar[k].options)
    /\ s # toolbar[k].value
    /\ toolbar' = [toolbar EXCEPT ![k].value = s]
    /\ UNCHANGED <<annotations, nextId, availableDatesRef, load, sweeps, creates,
                   deletes, harness, unloaded, effects, instanceRef, mounted>>

\* filterAnnotationsByDate(instance, dateFilter) is called with nothing else in
\* flight; repeat: the call before it was the same and has run to completion
CallFilter(dateFilter) ==
    /\ Idle
    /\ sweeps' = <<NewSweep(dateFilter)>>
    /\ harness' = [NoCall EXCEPT !.op = "filterAnnotationsByDate",
                                 !.dateFilter = dateFilter,
                                 !.before = annotations,
                                 !.repeat = /\ harness.op = "filterAnnotationsByDate"
                                            /\ harness.dateFilter = dateFilter]
    /\ UNCHANGED <<annotations, nextId, availableDatesRef, toolbar, load, creates,
                   deletes, unloaded, effects, instanceRef, mounted>>

\* createDateFilterDropdown(dates) is called: the node of the item it returns
CallCreateDateFilterDropdown(dates) ==
    /\ Idle
    /\ harness' = [NoCall EXCEPT !.op = "createDateFilterDropdown",
                                 !.dates = dates,
                                 !.result = CreateDateFilterDropdown(dates)]
    /\ UNCHANGED <<annotations, nextId, availableDatesRef, toolbar, load, sweeps,
                   creates, deletes, unloaded, effects, instanceRef, mounted>>

\* updateDateDropdown(dates) is called: whether it found the dropdown, the selection
\* it found and the node it leaves
CallUpdateDateDropdown(dates) ==
    /\ Idle
    /\ toolbar' = UpdateDateDropdown(toolbar, dates)
    /\ LET found == FoundDropdown(toolbar) # {}
           k == IF found THEN Min(FoundDropdown(toolbar)) ELSE Len(toolbar')
       IN  harness' = [NoCall EXCEPT !.op = "updateDateDropdown",
                                     !.dates = dates,
                                     !.found = found,
                                     !.selection = IF found THEN toolbar[k].value ELSE <<>>,
                                     !.result = toolbar'[k]]
    /\ UNCHANGED <<annotations, nextId, availableDatesRef, load, sweeps, creates,
                   deletes, unloaded, effects, instanceRef, mounted>>

NextFn ==
    \/ LoadGetAnnotations
    \/ LoadResume
    \/ \E s \in {ALL} \cup Dates : CallFilter(s)
    \/ \E h \in 1..MaxSweeps : SweepGetAnnotations(h)
    \/ \E h \in 1..MaxSweeps : SweepUpdateApply(h)
    \/ \E h \in 1..MaxSweeps : SweepResume(h)

\* collectAvailableDates and filterAnnotationsByDate, one call at a time, on every
\* document and with nothing else changing it
SpecFn == Init /\ [][NextFn]_vars

\* the dropdown functions do not read the annotations: an empty document
InitDropdown == Init /\ annotations = <<>>

NextDropdown ==
    \/ LoadGetAnnotations
    \/ LoadResume
    \/ \E k \in 1..Len(toolbar) : Render(k)
    \/ \E k \in 1..Len(toolbar) : \E s \in Dates : PickOption(k, s)
    \/ \E dates \in SUBSET Dates : CallCreateDateFilterDropdown(dates)
    \/ \E dates \in SUBSET Dates : CallUpdateDateDropdown(dates)

\* createDateFilterDropdown and updateDateDropdown called with every set of dates on
\* a dropdown with every selection
SpecDropdown == InitDropdown /\ [][NextDropdown]_vars

\* -------------------------------------------- one event at a time, from an empty document
\* a document with no annotation: every annotation of the run is created by the user
InitSeq == Init /\ annotations = <<>>

\* each user event arrives when the event before it has been handled to completion
NextSeq ==
    \/ LoadGetAnnotations
    \/ LoadResume
    \/ \E k \in 1..Len(toolbar) : Render(k)
    \/ \E k \in 1..Len(toolbar) : \E s \in {ALL} \cup Dates : Idle /\ SelectDate(k, s)
    \/ \E h \in 1..MaxSweeps : SweepGetAnnotations(h)
    \/ \E h \in 1..MaxSweeps : SweepUpdateApply(h)
    \/ \E h \in 1..MaxSweeps : SweepResume(h)
    \/ \E ps \in Batches : \E r \in PromptResults : Idle /\ CreateAnnotations(ps, r)
    \/ \E h \in 1..MaxCreates : CreateUpdateApply(h)
    \/ \E h \in 1..MaxCreates : \E r \in PromptResults : CreateResume(h, r)
    \/ \E id \in 1..MaxAnnotations : Idle /\ DeleteAnnotation(id)
    \/ \E h \in 1..MaxDeletes : DeleteGetAnnotations(h)
    \/ \E h \in 1..MaxDeletes : DeleteResume(h)

SpecSeq == InitSeq /\ [][NextSeq]_vars

\* ------------------------------------------------- selection changes alone
NextSelect ==
    \/ LoadGetAnnotations
    \/ LoadResume
    \/ \E k \in 1..Len(toolbar) : Render(k)
    \/ \E k \in 1..Len(toolbar) : \E s \in {ALL} \cup Dates : SelectDate(k, s)
    \/ \E h \in 1..MaxSweeps : SweepGetAnnotations(h)
    \/ \E h \in 1..MaxSweeps : SweepUpdateApply(h)
    \/ \E h \in 1..MaxSweeps : SweepResume(h)

\* the user only changes the selection, also while a sweep is running; no annotation
\* is created or deleted
SpecSelect == Init /\ [][NextSelect]_vars

\* ------------------------------------------------------ viewer calls that fail
\* getAnnotations rejects inside the collectAvailableDates of loadViewer: the catch
\* of loadViewer logs it; no toolbar item is added and no listener is registered
LoadGetAnnotationsReject ==
    /\ load.pc = "getAnnotations"
    /\ load' = [load EXCEPT !.pc = "failed"]
    /\ UNCHANGED <<annotations, nextId, availableDatesRef, toolbar, sweeps, creates,
                   deletes, harness, unloaded, effects, instanceRef, mounted>>

\* getAnnotations rejects inside the collectAvailableDates of listener run h: the
\* rejection leaves collectAvailableDates and the listener, which catches nothing
DeleteGetAnnotationsReject(h) ==
    /\ h \in 1..Len(deletes)
    /\ deletes[h].pc = "getAnnotations"
    /\ deletes' = RemoveAt(deletes, h)
    /\ UNCHANGED <<annotations, nextId, availableDatesRef, toolbar, load, sweeps,
                   creates, harness, unloaded, effects, instanceRef, mounted>>

\* the update run h awaits rejects: filterAnnotationsByDate has no try, so the
\* rejection leaves both loops and the change listener; nothing is written
SweepUpdateReject(h) ==
    /\ h \in 1..Len(sweeps)
    /\ sweeps[h].pc = "update"
    /\ sweeps' = RemoveAt(sweeps, h)
    /\ UNCHANGED <<annotations, nextId, availableDatesRef, toolbar, load, creates,
                   deletes, harness, unloaded, effects, instanceRef, mounted>>

\* the update listener run h awaits rejects: the rejection leaves the for-of loop
\* and the listener; nothing is written
CreateUpdateReject(h) ==
    /\ h \in 1..Len(creates)
    /\ creates[h].pc = "update"
    /\ creates' = RemoveAt(creates, h)
    /\ UNCHANGED <<annotations, nextId, availableDatesRef, toolbar, load, sweeps,
                   deletes, harness, unloaded, effects, instanceRef, mounted>>

\* the user deletes annotation id with nothing in flight; the index and the toolbar
\* the annotations.delete listener starts from are kept
CallDeleteListener(id) ==
    /\ Idle
    /\ id \in Ids(annotations)
    /\ annotations' = SelectSeq(annotations, LAMBDA a : a.id # id)
    /\ deletes' = <<NewCollect>>
    /\ harness' = [NoCall EXCEPT !.op = "annotations.delete",
                                 !.dates = availableDatesRef,
                                 !.before = toolbar]
    /\ UNCHANGED <<nextId, availableDatesRef, toolbar, load, sweeps, creates, unloaded,
                   effects, instanceRef, mounted>>

NextFail ==
    \/ LoadGetAnnotations
    \/ LoadGetAnnotationsReject
    \/ LoadResume
    \/ \E k \in 1..Len(toolbar) : Render(k)
    \/ \E k \in 1..Len(toolbar) : \E s \in {ALL} \cup Dates : Idle /\ SelectDate(k, s)
    \/ \E h \in 1..MaxSweeps : SweepGetAnnotations(h)
    \/ \E h \in 1..MaxSweeps : SweepUpdateApply(h)
    \/ \E h \in 1..MaxSweeps : SweepUpdateReject(h)
    \/ \E h \in 1..MaxSweeps : SweepResume(h)
    \/ \E ps \in Batches : \E r \in PromptResults : Idle /\ CreateAnnotations(ps, r)
    \/ \E h \in 1..MaxCreates : CreateUpdateApply(h)
    \/ \E h \in 1..MaxCreates : CreateUpdateReject(h)
    \/ \E h \in 1..MaxCreates : \E r \in PromptResults : CreateResume(h, r)
    \/ \E id \in 1..MaxAnnotations : CallDeleteListener(id)
    \/ \E h \in 1..MaxDeletes : DeleteGetAnnotations(h)
    \/ \E h \in 1..MaxDeletes : DeleteGetAnnotationsReject(h)
    \/ \E h \in 1..MaxDeletes : DeleteResume(h)

\* one event at a time on every document, each call to the viewer failing or not
SpecFail == Init /\ [][NextFail]_vars

\* ------------------------------------------------ the document prop changes
\* the documents the user opens next
OpenedDocuments == {d \in Documents : \A a \in Range(d) : ~a.hidden}

\* props.document changes to doc: the cleanup unloads the viewer, the effect runs
\* again with a new instance variable, and NutrientViewer.load has resolved for doc.
\* availableDatesRef belongs to the component and is kept; the listener runs of the
\* old effect are not cancelled and keep their closure over the old instance
OpenDocument(doc) ==
    /\ load.pc = "done"
    /\ unloaded.loads < MaxLoads
    /\ annotations' = doc
    /\ nextId' = Len(doc) + 1
    /\ toolbar' = <<>>
    /\ load' = NewCollect
    /\ sweeps' = <<>>
    /\ creates' = <<>>
    /\ deletes' = <<>>
    /\ unloaded' = [loads |-> unloaded.loads + 1, store |-> annotations,
                    creates |-> creates, deletes |-> deletes]
    /\ instanceRef' = instanceRef + 1
    /\ mounted' = {instanceRef + 1}
    /\ UNCHANGED <<availableDatesRef, harness, effects>>

\* updateDateDropdown called by a run of the old effect: getElementById searches
\* the whole document, so a dropdown of the new viewer is refreshed; when none is
\* found setToolbarItems goes to the old instance
UnloadedUpdateDateDropdown(tb, dates) ==
    IF FoundDropdown(tb) = {} THEN tb ELSE UpdateDateDropdown(tb, dates)

\* the update a create listener run of the old effect awaits resolves: the run goes
\* on as in CreateUpdateApply and CreateResume, on the old instance
UnloadedCreateResume(h, r) ==
    /\ h \in 1..Len(unloaded.creates)
    /\ LET run == unloaded.creates[h]
           a == Head(run.annotations)
           updatedAnnotation == [a EXCEPT !.customData = CustomData(run.customDate)]
           newDates == availableDatesRef \cup {run.customDate}
           rest == Tail(run.annotations)
       IN  /\ availableDatesRef' = newDates
           /\ toolbar' = UnloadedUpdateDateDropdown(toolbar, newDates)
           /\ IF rest = <<>>
              THEN /\ r = {}
                   /\ unloaded' = [unloaded EXCEPT
                                       !.store = ApplyUpdate(@, updatedAnnotation),
                                       !.creates = RemoveAt(@, h)]
              ELSE unloaded' = [unloaded EXCEPT
                                   !.store = ApplyUpdate(@, updatedAnnotation),
                                   !.creates[h] = TagNext(rest, r)]
    /\ UNCHANGED <<annotations, nextId, load, sweeps, creates, deletes, harness,
                   effects, instanceRef, mounted>>

\* getAnnotations resolves for a delete listener run of the old effect
UnloadedDeleteGetAnnotations(h) ==
    /\ h \in 1..Len(unloaded.deletes)
    /\ unloaded.deletes[h].pc = "getAnnotations"
    /\ unloaded' = [unloaded EXCEPT
                        !.deletes[h] = CollectStep(@, unloaded.store)]
    /\ availableDatesRef' = Published(unloaded'.deletes[h], availableDatesRef)
    /\ UNCHANGED <<annotations, nextId, toolbar, load, sweeps, creates, deletes, harness,
                   effects, instanceRef, mounted>>

\* a delete listener run of the old effect resumes and calls updateDateDropdown
UnloadedDeleteResume(h) ==
    /\ h \in 1..Len(unloaded.deletes)
    /\ unloaded.deletes[h].pc = "collected"
    /\ toolbar' = UnloadedUpdateDateDropdown(toolbar, unloaded.deletes[h].dates)
    /\ unloaded' = [unloaded EXCEPT !.deletes = RemoveAt(@, h)]
    /\ UNCHANGED <<annotations, nextId, availableDatesRef, load, sweeps, creates,
                   deletes, harness, effects, instanceRef, mounted>>

\* the calls pending on the unloaded instance reject or never settle: the runs of
\* the old effect end there
UnloadedSettleNone ==
    /\ unloaded.creates # <<>> \/ unloaded.deletes # <<>>
    /\ unloaded' = [unloaded EXCEPT !.creates = <<>>, !.deletes = <<>>]
    /\ UNCHANGED <<annotations, nextId, availableDatesRef, toolbar, load, sweeps,
                   creates, deletes, harness, effects, instanceRef, mounted>>

\* only the first document is annotated by the user
FirstDocument == unloaded.loads = 0

NextSwap ==
    \/ LoadGetAnnotations
    \/ LoadResume
    \/ \E k \in 1..Len(toolbar) : Render(k)
    \/ \E ps \in Batches : \E r \in PromptResults :
           Idle /\ FirstDocument /\ CreateAnnotations(ps, r)
    \/ \E h \in 1..MaxCreates : CreateUpdateApply(h)
    \/ \E h \in 1..MaxCreates : \E r \in PromptResults : CreateResume(h, r)
    \/ \E id \in 1..MaxAnnotations : Idle /\ FirstDocument /\ DeleteAnnotation(id)
    \/ \E h \in 1..MaxDeletes : DeleteGetAnnotations(h)
    \/ \E h \in 1..MaxDeletes : DeleteResume(h)
    \/ \E doc \in OpenedDocuments : OpenDocument(doc)
    \/ \E h \in 1..MaxCreates : \E r \in PromptResults : UnloadedCreateResume(h, r)
    \/ \E h \in 1..MaxDeletes : UnloadedDeleteGetAnnotations(h)
    \/ \E h \in 1..MaxDeletes : UnloadedDeleteResume(h)
    \/ UnloadedSettleNone

\* an empty first document annotated one event at a time, then another document
\* opened at any moment
SpecSwap == InitSeq /\ [][NextSwap]_vars

\* ------------------------------------------------------ the runs of the effect
\* loadViewer of the run of the effect for props.document = doc, at its first await
\* (NutrientViewer.unload(container)): its instance variable is null (0)
NewEffect(doc) ==
    [document |-> doc, pc |-> "unload", instance |-> 0, collect |-> NewCollect,
     toolbarItems |-> <<>>]

\* the component has been mounted with some document and the effect has run once:
\* nothing is mounted in the container and instanceRef.current is null.  The store,
\* the toolbar and the listener runs of a single instance are not followed here
InitLoad ==
    /\ annotations = <<>>
    /\ nextId = 1
    /\ availableDatesRef = {}
    /\ toolbar = <<>>
    /\ load = [pc |-> "done", pageIndex |-> 0, dates |-> {}]
    /\ sweeps = <<>>
    /\ creates = <<>>
    /\ deletes = <<>>
    /\ harness = NoCall
    /\ unloaded = NoneUnloaded
    /\ effects \in {<<NewEffect(doc)>> : doc \in OpenedDocuments}
    /\ instanceRef = 0
    /\ mounted = {}

\* handleFileChange calls setDocument with a new object URL: the cleanup of the last
\* run calls NutrientViewer.unload(container) without awaiting it, which unmounts what
\* is mounted, and the effect runs again: a new loadViewer awaits its own unload.
\* The loadViewer of the earlier runs is not cancelled
ChangeDocument(doc) ==
    /\ Len(effects) <= MaxLoads
    /\ mounted' = {}
    /\ effects' = Append(effects, NewEffect(doc))
    /\ UNCHANGED <<annotations, nextId, availableDatesRef, toolbar, load, sweeps, creates,
                   deletes, harness, unloaded, instanceRef>>

\* the await of NutrientViewer.unload returns in run e (a throw is ignored):
\* loadViewer calls NutrientViewer.load(config) and awaits it
EffectUnloaded(e) ==
    /\ e \in 1..Len(effects)
    /\ effects[e].pc = "unload"
    /\ effects' = [effects EXCEPT ![e].pc = "load"]
    /\ UNCHANGED <<annotations, nextId, availableDatesRef, toolbar, load, sweeps, creates,
                   deletes, harness, unloaded, instanceRef, mounted>>

\* NutrientViewer.load resolves for run e: its instance is mounted, instance and
\* instanceRef.current are assigned and collectAvailableDates(instance) is called.
\* What becomes of an instance another run has mounted in the same container is the
\* viewer's choice: it stays mounted or it is replaced
EffectLoadResolve(e, replace) ==
    /\ e \in 1..Len(effects)
    /\ effects[e].pc = "load"
    /\ mounted' = IF replace THEN {e} ELSE mounted \cup {e}
    /\ instanceRef' = e
    /\ effects' = [effects EXCEPT ![e].pc = "collect", ![e].instance = e]
    /\ UNCHANGED <<annotations, nextId, availableDatesRef, toolbar, load, sweeps, creates,
                   deletes, harness, unloaded>>

\* NutrientViewer.load rejects for run e: the catch of loadViewer logs the error
EffectLoadReject(e) ==
    /\ e \in 1..Len(effects)
    /\ effects[e].pc = "load"
    /\ effects' = [effects EXCEPT ![e].pc = "failed"]
    /\ UNCHANGED <<annotations, nextId, availableDatesRef, toolbar, load, sweeps, creates,
                   deletes, harness, unloaded, instanceRef, mounted>>

\* getAnnotations resolves inside the collectAvailableDates of run e, against the
\* document of its instance
EffectGetAnnotations(e) ==
    /\ e \in 1..Len(effects)
    /\ effects[e].pc = "collect"
    /\ effects[e].collect.pc = "getAnnotations"
    /\ effects' = [effects EXCEPT ![e].collect = CollectStep(@, effects[e].document)]
    /\ availableDatesRef' = Published(effects'[e].collect, availableDatesRef)
    /\ UNCHANGED <<annotations, nextId, toolbar, load, sweeps, creates, deletes, harness,
                   unloaded, instanceRef, mounted>>

\* getAnnotations rejects in run e, whose instance has been unloaded: the catch of
\* loadViewer logs the error
EffectGetAnnotationsReject(e) ==
    /\ e \in 1..Len(effects)
    /\ effects[e].pc = "collect"
    /\ effects[e].collect.pc = "getAnnotations"
    /\ e \notin mounted
    /\ effects' = [effects EXCEPT ![e].pc = "failed"]
    /\ UNCHANGED <<annotations, nextId, availableDatesRef, toolbar, load, sweeps, creates,
                   deletes, harness, unloaded, instanceRef, mounted>>

\* run e resumes with dates: the dropdown item is appended to the toolbar of its
\* instance and the three listeners are registered on its instance
EffectResume(e) ==
    /\ e \in 1..Len(effects)
    /\ effects[e].pc = "collect"
    /\ effects[e].collect.pc = "collected"
    /\ effects' = [effects EXCEPT
                       ![e].pc = "done",
                       ![e].toolbarItems =
                           Append(@, CreateDateFilterDropdown(effects[e].collect.dates))]
    /\ UNCHANGED <<annotations, nextId, availableDatesRef, toolbar, load, sweeps, creates,
                   deletes, harness, unloaded, instanceRef, mounted>>

NextLoad ==
    \/ \E doc \in OpenedDocuments : ChangeDocument(doc)
    \/ \E e \in 1..(MaxLoads + 1) : EffectUnloaded(e)
    \/ \E e \in 1..(MaxLoads + 1) : \E replace \in BOOLEAN : EffectLoadResolve(e, replace)
    \/ \E e \in 1..(MaxLoads + 1) : EffectLoadReject(e)
    \/ \E e \in 1..(MaxLoads + 1) : EffectGetAnnotations(e)
    \/ \E e \in 1..(MaxLoads + 1) : EffectGetAnnotationsReject(e)
    \/ \E e \in 1..(MaxLoads + 1) : EffectResume(e)

\* the document prop changed at any moment of the loadViewer of the earlier runs,
\* every call to NutrientViewer.load settling at any later moment
SpecLoad == InitLoad /\ [][NextLoad]_vars

\* =================================================================== claims
\* a is visible exactly when the selection s is "all" or is a's createdDate
VisibleIffSelected(a, s) == (a.hidden = FALSE) <=> (s = ALL \/ CreatedDateOf(a) = {s})

\* a direct call of filterAnnotationsByDate has run to completion
FilterReturned == harness.op = "filterAnnotationsByDate" /\ sweeps = <<>>

\* C1: when a single run of filterAnnotationsByDate(instance, s) has completed with no
\* other handler running, every annotation is visible if and only if s is "all" or
\* s is its createdDate (so one with no createdDate is hidden under every date).
C1_SweepPostcondition ==
    FilterReturned =>
        \A a \in Range(annotations) : VisibleIffSelected(a, harness.dateFilter)

\* a completed run under a concrete date that changed the document and left an
\* untagged annotation hidden and a matching one visible
C1_Witness ==
    /\ FilterReturned
    /\ harness.dateFilter # ALL
    /\ annotations # harness.before
    /\ \E a \in Range(annotations) : CreatedDateOf(a) = {} /\ a.hidden
    /\ \E a \in Range(annotations) : CreatedDateOf(a) = {harness.dateFilter} /\ ~a.hidden

\* the createdDate values carried by the annotations on pages 0..NumPages-1
CarriedDates(st) ==
    {d \in Dates : \E a \in Range(st) : a.pageIndex \in 0..(NumPages - 1)
                                        /\ d \in CreatedDateOf(a)}

\* C2: when collectAvailableDates returns, its result and availableDatesRef.current
\* are exactly the set of createdDate values the document's annotations carry
\* (the document being the one the call scanned: nothing changed it meanwhile).
C2_CollectExact ==
    /\ load.pc = "collected" =>
           load.dates = CarriedDates(annotations) /\ availableDatesRef = load.dates
    /\ \A h \in 1..Len(deletes) :
           deletes[h].pc = "collected" =>
               /\ deletes[h].dates = CarriedDates(annotations)
               /\ availableDatesRef = deletes[h].dates

\* collectAvailableDates has returned on a document with two annotations of one date
\* on different pages and an index of that one date
C2_Witness ==
    /\ load.pc = "collected"
    /\ Cardinality(load.dates) = 1
    /\ \E a, b \in Range(annotations) :
           /\ a.pageIndex < b.pageIndex
           /\ CreatedDateOf(a) = load.dates
           /\ CreatedDateOf(b) = load.dates

\* C3: a second run of filterAnnotationsByDate with the same s, right after the first
\* has completed and with no annotation changed in between, issues no
\* instance.update and leaves every annotation as it was.
C3_SecondRunWritesNothing ==
    (harness.op = "filterAnnotationsByDate" /\ harness.repeat) =>
        /\ \A h \in 1..Len(sweeps) : sweeps[h].pc = "getAnnotations"
        /\ annotations = harness.before

\* a second run has completed on a document the first run had to hide a part of
C3_Witness ==
    /\ FilterReturned
    /\ harness.repeat
    /\ \E a \in Range(annotations) : a.hidden
    /\ \E a \in Range(annotations) : ~a.hidden

RECURSIVE LexBefore(_, _)
\* a comes strictly before b in lexicographic order of code units
LexBefore(a, b) ==
    IF b = <<>> THEN FALSE
    ELSE IF a = <<>> THEN TRUE
    ELSE IF Head(a) = Head(b) THEN LexBefore(Tail(a), Tail(b))
    ELSE Head(a) < Head(b)

\* o is "all" followed by each element of dates once, ascending
SentinelThenAscending(o, dates) ==
    /\ Len(o) = 1 + Cardinality(dates)
    /\ o[1] = ALL
    /\ {o[k] : k \in 2..Len(o)} = dates
    /\ \A i, j \in 2..Len(o) : i < j => LexBefore(o[i], o[j])

\* C4: the option list that createDateFilterDropdown(dates) and
\* updateDateDropdown(dates) produce is "all" first, then each date of the set once
\* in ascending lexicographic order; for the empty set it is just "all".
C4_OptionOrder ==
    harness.op \in {"createDateFilterDropdown", "updateDateDropdown"} =>
        /\ SentinelThenAscending(harness.result.options, harness.dates)
        /\ harness.dates = {} => harness.result.options = <<ALL>>

\* updateDateDropdown has listed a shorter date string after a longer one
C4_Witness ==
    /\ harness.op = "updateDateDropdown"
    /\ harness.found
    /\ \E i, j \in 2..Len(harness.result.options) :
           i < j /\ Len(harness.result.options[i]) > Len(harness.result.options[j])

\* C5: updateDateDropdown(dates) on an existing dropdown whose selection is v leaves
\* the selection v when v is "all" or one of dates, and "all" when v is a date that
\* is not in dates.
C5_SelectionPreserved ==
    (harness.op = "updateDateDropdown" /\ harness.found) =>
        harness.result.value =
            IF harness.selection = ALL \/ harness.selection \in harness.dates
            THEN harness.selection
            ELSE ALL

\* a selected date was missing from dates and the selection fell back to "all"
C5_Witness ==
    /\ harness.op = "updateDateDropdown"
    /\ harness.found
    /\ harness.selection \in Dates \ harness.dates
    /\ harness.dates # {}
    /\ harness.result.value = ALL

\* the date options of the dropdown updateDateDropdown would find in tb
ShownDates(tb) ==
    IF FoundDropdown(tb) = {} THEN {}
    ELSE Range(tb[Min(FoundDropdown(tb))].options) \ {ALL}

\* C6: once an annotations.delete event has been handled to completion (and nothing
\* else is left in flight), the Date Index is the set of createdDate values of the
\* annotations that remain, and the dropdown lists exactly the dates that a
\* remaining annotation carries.
C6_DeleteRebuildExact ==
    [][\A h \in 1..MaxDeletes :
           (DeleteResume(h) /\ Idle') =>
               /\ availableDatesRef' = CarriedDates(annotations')
               /\ \A k \in 1..Len(toolbar') :
                      Range(toolbar'[k].options) \ {ALL} = CarriedDates(annotations')]_vars

\* the run h of filterAnnotationsByDate reaches its end in this step
SweepCompletes(h) ==
    /\ SweepGetAnnotations(h) \/ SweepResume(h)
    /\ Len(sweeps') < Len(sweeps)

\* C7: for any two annotations A and B created through annotations.create events and
\* tagged with distinct dates dA and dB, when the sweep of the selection dA completes
\* A is visible and B is hidden, and when the sweep of the selection "all" completes
\* both are visible (a sequence of events, each handled before the next).
C7_EndToEnd ==
    [][\A h \in 1..MaxSweeps :
           SweepCompletes(h) =>
               \A A, B \in Range(annotations') :
                   \A dA, dB \in Dates :
                       (dA # dB /\ CreatedDateOf(A) = {dA} /\ CreatedDateOf(B) = {dB}) =>
                           /\ sweeps[h].dateFilter = dA => (~A.hidden /\ B.hidden)
                           /\ sweeps[h].dateFilter = ALL => (~A.hidden /\ ~B.hidden)]_vars

\* nothing in flight, the dropdown shows dA, A tagged dA is visible and B tagged
\* with another date is hidden
C7_Witness ==
    /\ Idle
    /\ \E A, B \in Range(annotations) :
           /\ CreatedDateOf(A) # {} /\ CreatedDateOf(B) # {}
           /\ CreatedDateOf(A) # CreatedDateOf(B)
           /\ ~A.hidden /\ B.hidden
           /\ \E k \in 1..Len(toolbar) : toolbar[k].attached /\ {toolbar[k].value} = CreatedDateOf(A)

\* C8: createdDate is write-once: an annotation that holds a createdDate d holds d
\* after every step in which it goes on existing.
C8_CreatedDateWriteOnce ==
    [][\A a \in Range(annotations) : \A b \in Range(annotations') :
           (a.id = b.id /\ CreatedDateOf(a) # {}) => CreatedDateOf(b) = CreatedDateOf(a)]_vars

\* C9: when the create listener has finished with an annotation (its update having
\* succeeded), the annotation carries the provided date, or today's date when the
\* prompt gave nothing, with a timestamp, and that date is in the Date Index and
\* among the dropdown's options.
C9_CreatedIsTagged ==
    [][\A h \in 1..MaxCreates : \A r \in PromptResults :
           CreateResume(h, r) =>
               /\ \A a \in Range(annotations') :
                      a.id = Head(creates[h].annotations).id =>
                          /\ CreatedDateOf(a) = {creates[h].customDate}
                          /\ \A cd \in a.customData : cd.timestamp # <<>>
               /\ creates[h].customDate # <<>>
               /\ creates[h].customDate \in availableDatesRef'
               /\ creates[h].customDate \in ShownDates(toolbar') \/ FoundDropdown(toolbar') = {}]_vars

\* annotations on page p that a create listener run still has to tag
AwaitingTag(p) ==
    {a \in Range(annotations) :
        /\ a.pageIndex = p
        /\ CreatedDateOf(a) = {}
        /\ \E h \in 1..Len(creates) : \E b \in Range(creates[h].annotations) : b.id = a.id}

\* C10: no sweep and no rebuild of the Date Index reads, with getAnnotations, an
\* annotation that annotations.create delivered and that carries no createdDate yet.
C10_TaggedBeforeObserved ==
    [][/\ \A h \in 1..MaxSweeps :
              SweepGetAnnotations(h) => AwaitingTag(sweeps[h].pageIndex) = {}
       /\ \A h \in 1..MaxDeletes :
              DeleteGetAnnotations(h) => AwaitingTag(deletes[h].pageIndex) = {}]_vars

\* the instance.update calls issued and not yet completed: the runs suspended at one
InFlightUpdates ==
    Cardinality({h \in 1..Len(sweeps) : sweeps[h].pc = "update"})
        + Cardinality({h \in 1..Len(creates) : creates[h].pc = "update"})

\* C11: in every reachable state, over the sweeps and the create listener runs
\* together, at most one instance.update has been issued and not yet completed.
C11_SingleInFlightWriter == InFlightUpdates <= 1

\* the run h of filterAnnotationsByDate ends in this step, by reaching its end or by
\* a rejected update
SweepEnds(h) ==
    /\ SweepGetAnnotations(h) \/ SweepResume(h) \/ SweepUpdateReject(h)
    /\ Len(sweeps') < Len(sweeps)

\* the ids of the annotations whose update failed in this step of run h
SweepFailed(h) ==
    IF SweepUpdateReject(h) THEN {Head(sweeps[h].annotations).id} ELSE {}

\* C12: when a run of filterAnnotationsByDate has ended, every annotation whose own
\* update did not fail is visible exactly when the selection asks for it, also when
\* an update of the run failed; and when the tag write of one annotation of a created
\* batch fails, the annotations after it in the batch are still to be tagged.
C12_BestEffort ==
    [][/\ \A h \in 1..MaxSweeps :
              SweepEnds(h) =>
                  \A a \in Range(annotations') :
                      a.id \notin SweepFailed(h) =>
                          VisibleIffSelected(a, sweeps[h].dateFilter)
       /\ \A h \in 1..MaxCreates :
              CreateUpdateReject(h) =>
                  \A b \in Range(Tail(creates[h].annotations)) :
                      \E run \in Range(creates') :
                          \E c \in Range(run.annotations) : c.id = b.id]_vars

\* the option lists of the toolbar's date-filter items
OptionLists(tb) == [k \in 1..Len(tb) |-> tb[k].options]

\* C13: when getAnnotations fails during collectAvailableDates the rebuild ends with
\* nothing published: availableDatesRef.current and the dropdown's option list are
\* what they were when the rebuild started (the empty index and no dropdown for the
\* rebuild of loadViewer), and the caller does not go on to refresh the dropdown.
C13_NoPartialIndex ==
    [][/\ load'.pc = "failed" => (availableDatesRef' = {} /\ toolbar' = <<>>)
       /\ \A h \in 1..MaxDeletes :
              (DeleteGetAnnotationsReject(h) /\ harness.op = "annotations.delete") =>
                  /\ availableDatesRef' = harness.dates
                  /\ OptionLists(toolbar') = OptionLists(harness.before)
                  /\ deletes' = <<>>]_vars

\* the rebuild of loadViewer failed on a later page after it had found a date
C13_Witness ==
    /\ load.pc = "failed"
    /\ load.pageIndex > 0
    /\ load.dates # {}
    /\ availableDatesRef = {}

\* the date options of every date-filter item of the toolbar are exactly dates
AllShow(tb, dates) == \A k \in 1..Len(tb) : Range(tb[k].options) \ {ALL} = dates

\* C15: whenever no handler is in flight, the date options the dropdown shows are
\* exactly availableDatesRef.current, for every interleaving of create listener and
\* delete listener runs.
C15_OptionsMatchIndex == Idle => AllShow(toolbar, availableDatesRef)

\* the value the dropdown shows
DisplayedSelection(tb) == {tb[k].value : k \in 1..Len(tb)}

\* C17: whenever no handler is in flight, every annotation is visible exactly when
\* the dropdown's current value is "all" or is the annotation's createdDate.
C17_VisibilityFollowsSelection ==
    Idle => \A s \in DisplayedSelection(toolbar) :
                \A a \in Range(annotations) : VisibleIffSelected(a, s)

\* C19: whenever no handler is in flight, availableDatesRef.current is the set of
\* createdDate values the annotations of the document carry, after any interleaving
\* of create and delete events.
C19_NoIndexDrift == Idle => availableDatesRef = CarriedDates(annotations)

\* C18: when the user has selected s1 and then s2 while the sweep for s1 was running,
\* and no annotation is created or deleted, then once both sweeps have completed every
\* annotation is visible exactly when s2, the value the dropdown shows, asks for it.
C18_LastSelectionWins ==
    [][\A h \in 1..MaxSweeps :
           (SweepCompletes(h) /\ sweeps' = <<>>) =>
               \A s \in DisplayedSelection(toolbar') :
                   \A a \in Range(annotations') : VisibleIffSelected(a, s)]_vars

\* a step of the run h of filterAnnotationsByDate
SweepStep(h) == SweepGetAnnotations(h) \/ SweepUpdateApply(h) \/ SweepResume(h)

\* how far the run sw has come: its page, then the annotations of the page it has
\* passed, then whether the update it awaits has been carried out
Position(sw) ==
    sw.pageIndex * (2 * MaxAnnotations + 3)
        + (IF sw.pc = "getAnnotations" THEN 0
           ELSE 1 + 2 * (MaxAnnotations - Len(sw.annotations))
                  + (IF sw.pc = "updated" THEN 1 ELSE 0))

\* C20: within one run of filterAnnotationsByDate the pages are visited in increasing
\* order with none skipped, every step takes the run strictly further through the
\* annotations of its page (so each is visited once and the run ends after a bounded
\* number of steps), an update is issued only when no other update of the run is
\* pending, and the annotation an update is issued for has not been written by the
\* run before.
C20_SweepOrdered ==
    [][\A h \in 1..MaxSweeps :
           (SweepStep(h) /\ Len(sweeps') = Len(sweeps)) =>
               /\ Position(sweeps'[h]) > Position(sweeps[h])
               /\ Position(sweeps'[h]) < NumPages * (2 * MaxAnnotations + 3)
               /\ sweeps'[h].pageIndex \in {sweeps[h].pageIndex, sweeps[h].pageIndex + 1}
               /\ sweeps'[h].pc = "getAnnotations" =>
                      sweeps'[h].pageIndex = sweeps[h].pageIndex + 1
               /\ InFlightUpdates' <= 1
               /\ (sweeps'[h].pc = "update" /\ harness.op = "filterAnnotationsByDate") =>
                      \A a \in Range(annotations') :
                          a.id = Head(sweeps'[h].annotations).id =>
                              a \in Range(harness.before)]_vars

\* a run has ended after it had to write an annotation on each of two pages
C20_Witness ==
    /\ FilterReturned
    /\ \E a, b \in Range(annotations) :
           /\ a.pageIndex < b.pageIndex
           /\ a \notin Range(harness.before)
           /\ b \notin Range(harness.before)

\* C14: in every reachable state the toolbar of the viewer instance holds at most one
\* item with id "date-filter" and at most one select with id "date-filter-dropdown"
\* is in the document, after any sequence of document loads, create events and
\* delete events.
C14_OneDateFilterItem ==
    /\ Len(toolbar) <= 1
    /\ Cardinality({k \in 1..Len(toolbar) : toolbar[k].attached}) <= 1

\* on the first (empty) document the toolbar item lists a date and is not yet in the
\* document: updateDateDropdown did not find the dropdown and re-created the item
C14_Witness ==
    /\ FirstDocument
    /\ Len(toolbar) = 1
    /\ ~toolbar[1].attached
    /\ Len(toolbar[1].options) > 1

\* C16: once another document has been opened and has finished loading,
\* availableDatesRef.current and the dropdown's options hold only createdDate values
\* of that document's annotations, also when a listener run of the previous document
\* was in flight at the change.
C16_ScopedToDocument ==
    (~FirstDocument /\ load.pc = "done") =>
        /\ availableDatesRef \subseteq CarriedDates(annotations)
        /\ \A k \in 1..Len(toolbar) :
               Range(toolbar[k].options) \ {ALL} \subseteq CarriedDates(annotations)

\* a step of the annotations.create listener: the delivery of the event, the write of
\* updatedAnnotation by the viewer, or the continuation after the await
CreateListenerStep ==
    \/ \E ps \in Batches : \E r \in PromptResults : CreateAnnotations(ps, r)
    \/ \E h \in 1..MaxCreates : CreateUpdateApply(h)
    \/ \E h \in 1..MaxCreates : \E r \in PromptResults : CreateResume(h, r)

\* C21: handling an annotations.create event changes the hidden flag of no annotation:
\* every annotation stored before a step of the create listener has the same hidden
\* value after it, also when a sweep has written hidden to a created annotation
\* between the delivery of the event and the listener's write of its customData.
C21_TaggingKeepsHidden ==
    [][CreateListenerStep =>
           \A a \in Range(annotations) : \A b \in Range(annotations') :
               a.id = b.id => b.hidden = a.hidden]_vars

\* the run of the effect for the document requested last
Latest == Len(effects)

\* every loadViewer has run to its end: no load, unload or getAnnotations is pending
AllSettled == \A e \in 1..Len(effects) : effects[e].pc \in {"done", "failed"}

\* the runs whose listeners are registered on a mounted instance
Listening == {e \in mounted : effects[e].pc = "done"}

\* C22: once every loadViewer has run to its end and the load of the document
\* requested last has succeeded, instanceRef.current is the instance of that document,
\* it is the only instance mounted, the registered listeners are those of its run, and
\* availableDatesRef.current holds exactly the createdDate values of that document,
\* whatever the order in which the loads of the earlier documents settled.
C22_LatestDocumentWins ==
    (AllSettled /\ effects # <<>> /\ effects[Latest].pc = "done") =>
        /\ instanceRef = Latest
        /\ mounted = {Latest}
        /\ Listening = {Latest}
        /\ availableDatesRef = CarriedDates(effects[Latest].document)

====
